---- MODULE Spec2Model ----
(***************************************************************************)
(* Model of app/src/main/cpp/quickjs_integration.cpp: the JNI bridge that  *)
(* owns one QuickJSEngine (runtime, context, initialized flag), evaluates  *)
(* source text or serialized bytecode on it and reports text outcomes.     *)
(* The QuickJS library itself (JS_Eval, JS_ReadObject, ...) is an external *)
(* collaborator: its handles are tracked as a heap of runtime and context  *)
(* ids, its evaluation as a table of script behaviours.                    *)
(*                                                                         *)
(* Spec takes every bridge call as one step.  Five further specifications  *)
(* start from a ready session and follow one thing statement by statement: *)
(* SpecEval one executeScript call, SpecHttp one _nativeHttpRequest call,  *)
(* SpecThreads two host threads inside bridge calls, SpecTimers the timer  *)
(* polyfills, SpecXhr one XMLHttpRequest object.                           *)
(***************************************************************************)
EXTENDS Integers, Sequences, FiniteSets, TLC

\* ------------------------------------------------------------------ bounds
\* How many runtimes / contexts the allocator hands out before every further
\* JS_NewRuntime / JS_NewContext reports failure.
MaxRuntimes == 2
MaxContexts == 2

\* ------------------------------------------------------------- C-level values
\* nullptr for handles (handle ids are 1, 2, ...)
NULL == 0
\* a NULL char* returned by JS_ToCString when the conversion itself throws
NULLSTR == "<NULL>"

RuntimeIds == 1..MaxRuntimes
ContextIds == 1..MaxContexts

\* ------------------------------------------------------- script-visible world
\* js_std_add_helpers
StdHelpers == {"print"}
ConsoleGlobals == {"console"}
TimerGlobals == {"setTimeout", "clearTimeout", "setInterval", "clearInterval"}
HttpGlobals == {"_nativeHttpRequest", "fetch", "XMLHttpRequest"}
PolyfillGlobals == ConsoleGlobals \cup TimerGlobals \cup HttpGlobals

\* A JS value as the bridge sees it: what JS_ToCString gives for it, and what
\* JS_ToCString gives for its "name" and "message" properties.
JSVal(s, n, m) == [str |-> s, name |-> n, message |-> m]

\* The scripts the host submits.  kind says what the program text does when
\* it is run as a top-level program; v is the value it returns / throws /
\* settles its promise with; g is the global it defines, reads or deletes.
Script(k, v, g) == [kind |-> k, v |-> v, g |-> g]
ScriptTable ==
  << Script("value",   JSVal("3", "undefined", "undefined"), ""),                      \* 1+2
     Script("throw",   JSVal("Error: boom", "Error", "boom"), ""),                     \* throw new Error('boom')
     Script("throw",   JSVal(NULLSTR, "E", "m"), ""),                                  \* throw {name, message, toString(){throw 0}}
     Script("syntax",  JSVal("SyntaxError: unexpected token", "SyntaxError", "unexpected token"), ""),
     Script("resolve", JSVal("42", "undefined", "undefined"), ""),                     \* Promise.resolve(42)
     Script("reject",  JSVal("Error: nope", "Error", "nope"), ""),                     \* Promise.reject(new Error('nope'))
     Script("reject",  JSVal(NULLSTR, "E", "m"), ""),
     Script("define",  JSVal("1", "undefined", "undefined"), "g"),                     \* var g = 1; g
     Script("read",    JSVal("1", "undefined", "undefined"), "g"),                     \* g
     Script("delete",  JSVal("true", "undefined", "undefined"), "console")             \* delete globalThis.console
  >>
ScriptIds == 1..Len(ScriptTable)

ReferenceError(g) ==
  JSVal("ReferenceError: " \o g \o " is not defined", "ReferenceError", g \o " is not defined")

\* ------------------------------------------------------ the engine (library)
\* Result of an engine call: exc = JS_IsException(result); v = the value (the
\* pending exception when exc); promise = the state the returned promise
\* reaches once the job queue is drained ("none": not a promise); globals =
\* the context's global names afterwards.
EngineResult(e, v, p, G) == [exc |-> e, v |-> v, promise |-> p, globals |-> G]

\* Running a parsed top-level program on a context with globals G.
JS_Run(s, G) ==
  CASE s.kind = "value"   -> EngineResult(FALSE, s.v, "none", G)
    [] s.kind = "throw"   -> EngineResult(TRUE, s.v, "none", G)
    [] s.kind = "resolve" -> EngineResult(FALSE, s.v, "fulfilled", G)
    [] s.kind = "reject"  -> EngineResult(FALSE, s.v, "rejected", G)
    [] s.kind = "define"  -> EngineResult(FALSE, s.v, "none", G \cup {s.g})
    [] s.kind = "read"    -> IF s.g \in G
                               THEN EngineResult(FALSE, s.v, "none", G)
                               ELSE EngineResult(TRUE, ReferenceError(s.g), "none", G)
    [] s.kind = "delete"  -> EngineResult(FALSE, s.v, "none", G \ {s.g})
    [] OTHER              -> EngineResult(TRUE, s.v, "none", G)

\* JS_Eval(ctx, text, len, name, JS_EVAL_TYPE_GLOBAL): parse, then run.
JS_Eval(s, G) ==
  IF s.kind = "syntax" THEN EngineResult(TRUE, s.v, "none", G) ELSE JS_Run(s, G)

\* js_std_await(ctx, result): a non-promise is returned as is, a fulfilled
\* promise gives its value, a rejected promise throws its reason.
js_std_await(r) ==
  CASE r.promise = "fulfilled" -> EngineResult(FALSE, r.v, "none", r.globals)
    [] r.promise = "rejected"  -> EngineResult(TRUE, r.v, "none", r.globals)
    [] OTHER                   -> r

\* JS_Eval(..., JS_EVAL_FLAG_COMPILE_ONLY): 0 stands for JS_EXCEPTION,
\* otherwise the function object of script i (nothing is run).
JS_Compile(i) == IF ScriptTable[i].kind = "syntax" THEN 0 ELSE i

\* JS_WriteObject / JS_ReadObject: a version byte, then the unit.
BC_VERSION == 67
JS_WriteObject(fn) == <<BC_VERSION, fn>>
JS_ReadObject(bytes) ==
  IF Len(bytes) = 2 /\ bytes[1] = BC_VERSION /\ bytes[2] \in ScriptIds
    THEN bytes[2] ELSE 0
ReadObjectError == JSVal("SyntaxError: invalid bytecode", "SyntaxError", "invalid bytecode")

\* The byte arrays a host can hand to executeBytecode.  Not from
\* compileScript: nullptr (NoBytes), empty, wrong version, truncated,
\* unknown unit.
NoBytes == <<-1>>
ForeignBytes == { NoBytes, <<>>, <<BC_VERSION + 1, 1>>, <<BC_VERSION>>, <<BC_VERSION, 0>> }

\* ------------------------------------------------------------ text outcomes
NotInitializedText == "Error: QuickJS not initialized"

\* executeScript lines 413-444 and 457-488: the description of an exception:
\* JS_ToCString of the value, else "name: message", else name, else message,
\* else a fixed text.
ErrorText(prefix, v, unknown) ==
  IF v.str # NULLSTR THEN prefix \o v.str
  ELSE IF v.name # NULLSTR /\ v.message # NULLSTR THEN prefix \o v.name \o ": " \o v.message
  ELSE IF v.name # NULLSTR THEN prefix \o v.name
  ELSE IF v.message # NULLSTR THEN prefix \o v.message
  ELSE prefix \o unknown

\* executeBytecode lines 746-751 and 765-770: a fixed text, then ": " and
\* JS_ToCString of the exception when there is one.
BytecodeErrorText(prefix, v) ==
  IF v.str # NULLSTR THEN prefix \o ": " \o v.str ELSE prefix

\* Mutant of BytecodeRejectionText: the rejection reported under the prefix
\* of the other bytecode errors.
BytecodeRejectionText_prefixed(v) ==
  IF v.str # NULLSTR THEN "Error: Bytecode execution failed: " \o v.str
  ELSE "Error: Bytecode execution failed"

\* executeBytecode lines 784-790
BytecodeRejectionText(v) ==
  IF v.str # NULLSTR THEN "Promise Rejection: " \o v.str
  ELSE "Promise Rejection: " \o "Unknown error"

\* lines 497-504 and 797-804
ResultText(v) == IF v.str # NULLSTR THEN v.str ELSE "undefined"

\* What one evaluation hands back: the text, the context's globals
\* afterwards, and the engine calls it made.
Outcome(t, G, calls) == [ret |-> t, globals |-> G, calls |-> calls]

\* QuickJSEngine::executeScript past its guard (lines 404-510), script i on a
\* context whose globals are G.
EvalSource(i, G) ==
  LET r == JS_Eval(ScriptTable[i], G)
      a == js_std_await(r)
  IN IF r.exc
       THEN Outcome(ErrorText("JavaScript Error: ", r.v,
                      "Unknown error (exception object could not be converted to string)"),
                    r.globals, {"JS_Eval"})
     ELSE IF a.exc
       THEN Outcome(ErrorText("Promise Rejection: ", a.v,
                      "Unknown error (promise rejection could not be converted to string)"),
                    a.globals, {"JS_Eval", "js_std_await"})
     ELSE Outcome(ResultText(a.v), a.globals, {"JS_Eval", "js_std_await"})

\* Mutant of EmptyBytecode: the length is not checked.
EmptyBytecode_unchecked(bytes) == FALSE

\* executeBytecode lines 712-713: GetArrayLength(bytecode) <= 0
EmptyBytecode(bytes) == Len(bytes) <= 0

\* executeBytecode line 742: JS_IsException(compiledObj)
DeserializationFailed(fn) == fn = 0

\* executeBytecode past the isInitialized guard (lines 707-810): the byte
\* array, whether GetByteArrayElements gives the data, the context handle
\* and its globals.
EvalBytecode(bytes, dataOk, ctx, G) ==
  IF bytes = NoBytes THEN Outcome("Error: Null bytecode", G, {})
  ELSE IF EmptyBytecode(bytes) THEN Outcome("Error: Empty bytecode", G, {})
  ELSE IF ~dataOk THEN Outcome("Error: Failed to get bytecode data", G, {})
  ELSE IF ctx = NULL THEN Outcome("Error: Failed to get QuickJS context", G, {})
  ELSE LET fn == JS_ReadObject(bytes) IN
    IF DeserializationFailed(fn)
      THEN Outcome(BytecodeErrorText("Error: Bytecode deserialization failed", ReadObjectError),
                   G, {"JS_ReadObject"})
    ELSE LET r == JS_Run(ScriptTable[fn], G)
             a == js_std_await(r)
         IN IF r.exc
              THEN Outcome(BytecodeErrorText("Error: Bytecode execution failed", r.v),
                           r.globals, {"JS_ReadObject", "JS_EvalFunction"})
            ELSE IF a.exc
              THEN Outcome(BytecodeRejectionText(a.v), a.globals,
                           {"JS_ReadObject", "JS_EvalFunction", "js_std_await"})
            ELSE Outcome(ResultText(a.v), a.globals,
                         {"JS_ReadObject", "JS_EvalFunction", "js_std_await"})

\* compileScript lines 655-696: NoBytes stands for the nullptr it returns.
CompileBytes(i) ==
  LET fn == JS_Compile(i) IN IF fn = 0 THEN NoBytes ELSE JS_WriteObject(fn)

\* The byte arrays compileScript gives a host for the scripts of the table
\* (a unit does not depend on the context it was compiled on).
CompiledBytes == { CompileBytes(i) : i \in ScriptIds }

\* ------------------------------------------------------------------- state
VARIABLES
  engine,    \* g_quickjsEngine != nullptr
  eng,       \* the QuickJSEngine object: runtime, context, initialized
  bridge,    \* g_quickjsBridgeInstance != nullptr
  native,    \* the native resources: live runtimes and contexts, JNI global refs
  globals,   \* per context, the names defined on its global object
  last,      \* the last bridge call: what it was given, returned and did
  hist,      \* what has happened so far (history, not program state)
  ev,        \* one executeScript call followed statement by statement
  http,      \* one call of _nativeHttpRequest followed statement by statement
  thr,       \* the host threads inside bridge calls, and where each one is
  tm,        \* a script using the timer polyfills
  xhr        \* a script using one XMLHttpRequest object

vars == <<engine, eng, bridge, native, globals, last, hist, ev, http, thr, tm, xhr>>

\* QuickJSEngine() : runtime(nullptr), context(nullptr), initialized(false)
NewEngine == [runtime |-> NULL, context |-> NULL, initialized |-> FALSE]

\* ---------------------------------------------------------- native resources
\* While a bridge call runs, the resources carry the call's allocation and
\* release events and the handle the last allocation returned.
Begin(n) ==
  [rts |-> n.rts, ctxs |-> n.ctxs, nrt |-> n.nrt, nctx |-> n.nctx, owner |-> n.owner,
   refs |-> n.refs, faults |-> n.faults, events |-> <<>>, ret |-> NULL]
End(m) ==
  [rts |-> m.rts, ctxs |-> m.ctxs, nrt |-> m.nrt, nctx |-> m.nctx, owner |-> m.owner,
   refs |-> m.refs, faults |-> m.faults]

Fault(m, cond, what) == IF cond THEN m.faults \cup {what} ELSE m.faults

JS_NewRuntime(m, ok) ==
  IF ok /\ m.nrt <= MaxRuntimes
    THEN [m EXCEPT !.rts = @ \cup {m.nrt}, !.nrt = @ + 1, !.ret = m.nrt,
                   !.events = Append(@, <<"JS_NewRuntime", m.nrt>>)]
    ELSE [m EXCEPT !.ret = NULL]

JS_NewContext(m, rt, ok) ==
  IF ok /\ m.nctx <= MaxContexts
    THEN [m EXCEPT !.ctxs = @ \cup {m.nctx}, !.nctx = @ + 1, !.ret = m.nctx,
                   !.owner = [@ EXCEPT ![m.nctx] = rt],
                   !.faults = Fault(m, rt \notin m.rts, "runtime used after free"),
                   !.events = Append(@, <<"JS_NewContext", m.nctx>>)]
    ELSE [m EXCEPT !.ret = NULL,
                   !.faults = Fault(m, rt \notin m.rts, "runtime used after free")]

\* Any engine call that takes the context: evaluating on it, freeing it.
UseContext(m, c) ==
  [m EXCEPT !.faults = Fault(m, c \notin m.ctxs, "context used after free")
                       \cup Fault(m, c \in m.ctxs /\ m.owner[c] \notin m.rts,
                                  "context used after its runtime was freed")]

JS_FreeContext(m, c) ==
  LET u == UseContext(m, c) IN
  [u EXCEPT !.ctxs = @ \ {c}, !.events = Append(@, <<"JS_FreeContext", c>>)]

JS_FreeRuntime(m, rt) ==
  [m EXCEPT !.rts = @ \ {rt},
            !.faults = Fault(m, rt \notin m.rts, "runtime freed twice"),
            !.events = Append(@, <<"JS_FreeRuntime", rt>>)]

NewGlobalRef(m) == [m EXCEPT !.refs = @ + 1]
DeleteGlobalRef(m) == [m EXCEPT !.refs = @ - 1]

\* js_std_add_helpers, addConsoleSupport, addTimerPolyfills, addHttpPolyfills
\* on a fresh context (lines 389-392 and 534-537).
InstalledGlobals == StdHelpers \cup PolyfillGlobals

\* initializeHttpPolyfill (lines 98-111): drop the reference held, take one.
initializeHttpPolyfill(m, held) ==
  NewGlobalRef(IF held THEN DeleteGlobalRef(m) ELSE m)

\* ---------------------------------------------------------- QuickJSEngine
\* Each method gives the object afterwards (eng), the resources (m), the
\* globals of every context (globals) and what it returns.

\* QuickJSEngine::initialize (lines 368-397)
initialize(E, m, Gs, rtOk, ctxOk) ==
  LET m1 == JS_NewRuntime(m, rtOk)
      rt == m1.ret
      m2 == JS_NewContext(m1, rt, ctxOk)
      ctx == m2.ret
  IN IF rt = NULL
       THEN [eng |-> [E EXCEPT !.runtime = NULL], m |-> m1, globals |-> Gs, ok |-> FALSE]
     ELSE IF ctx = NULL
       THEN [eng |-> [E EXCEPT !.runtime = NULL, !.context = NULL],
             m |-> JS_FreeRuntime(m2, rt), globals |-> Gs, ok |-> FALSE]
     ELSE [eng |-> [runtime |-> rt, context |-> ctx, initialized |-> TRUE],
           m |-> m2, globals |-> [Gs EXCEPT ![ctx] = InstalledGlobals], ok |-> TRUE]

\* QuickJSEngine::isInitialized (lines 560-562)
isInitialized(E) == E.initialized /\ E.runtime # NULL /\ E.context # NULL

\* Mutant of NotInitialized: the guard is missing.
NotInitialized_unguarded(E) == FALSE

\* QuickJSEngine::executeScript line 400
NotInitialized(E) == ~E.initialized \/ E.context = NULL

\* QuickJSEngine::executeScript (lines 399-510)
executeScript(E, m, Gs, i) ==
  IF NotInitialized(E)
    THEN [ret |-> NotInitializedText, m |-> m, globals |-> Gs, calls |-> {}, ctx |-> NULL]
    ELSE LET o == EvalSource(i, Gs[E.context]) IN
         [ret |-> o.ret, m |-> UseContext(m, E.context),
          globals |-> [Gs EXCEPT ![E.context] = o.globals],
          calls |-> o.calls, ctx |-> E.context]

\* QuickJSEngine::resetContext lines 521-524: free the old context
FreeOldContext(E, m) == IF E.context # NULL THEN JS_FreeContext(m, E.context) ELSE m

\* QuickJSEngine::resetContext lines 528-532: the object after a failed
\* context creation
ResetFailed(E) == [E EXCEPT !.context = NULL, !.initialized = FALSE]

\* Mutant of ResetDone: a successful reset marks the engine initialized.
ResetDone_reinitializes(E, ctx) == [E EXCEPT !.context = ctx, !.initialized = TRUE]

\* QuickJSEngine::resetContext lines 534-540: the object once the new
\* context is set up
ResetDone(E, ctx) == [E EXCEPT !.context = ctx]

\* Mutant of resetContext: with a runtime, the current context is kept and
\* success is reported.
resetContext_keepsContext(E, m, Gs, ctxOk) ==
  [eng |-> E, m |-> m, globals |-> Gs, ok |-> E.runtime # NULL /\ E.context # NULL]

\* QuickJSEngine::resetContext (lines 512-541)
resetContext(E, m, Gs, ctxOk) ==
  IF E.runtime = NULL
    THEN [eng |-> E, m |-> m, globals |-> Gs, ok |-> FALSE]
    ELSE LET m1 == FreeOldContext(E, m)
             G1 == IF E.context # NULL THEN [Gs EXCEPT ![E.context] = {}] ELSE Gs
             m2 == JS_NewContext(m1, E.runtime, ctxOk)
             ctx == m2.ret
         IN IF ctx = NULL
              THEN [eng |-> ResetFailed(E), m |-> m2, globals |-> G1, ok |-> FALSE]
              ELSE [eng |-> ResetDone(E, ctx), m |-> m2,
                    globals |-> [G1 EXCEPT ![ctx] = InstalledGlobals], ok |-> TRUE]

\* Mutant of cleanup: the runtime is freed first, then the context.
cleanup_runtimeFirst(E, m, Gs) ==
  LET m1 == IF E.runtime # NULL THEN JS_FreeRuntime(m, E.runtime) ELSE m
      m2 == IF E.context # NULL THEN JS_FreeContext(m1, E.context) ELSE m1
  IN [eng |-> [runtime |-> NULL, context |-> NULL, initialized |-> FALSE], m |-> m2,
      globals |-> IF E.context # NULL THEN [Gs EXCEPT ![E.context] = {}] ELSE Gs]

\* QuickJSEngine::cleanup (lines 543-558)
cleanup(E, m, Gs) ==
  LET m1 == IF E.context # NULL THEN JS_FreeContext(m, E.context) ELSE m
      m2 == IF E.runtime # NULL THEN JS_FreeRuntime(m1, E.runtime) ELSE m1
  IN [eng |-> [runtime |-> NULL, context |-> NULL, initialized |-> FALSE], m |-> m2,
      globals |-> IF E.context # NULL THEN [Gs EXCEPT ![E.context] = {}] ELSE Gs]

\* ------------------------------------------------------------ the JNI bridge
\* Java_com_quickjs_android_QuickJSBridge_isInitialized (lines 619-623)
JNI_isInitialized == engine /\ isInitialized(eng)

\* The record of a bridge call: its name, its boolean and text results, the
\* engine calls and allocation events it made, the context it ran script
\* code on, the script it ran or compiled, the bytes it was given or gave,
\* and, from the state it started in, isInitialized() and the globals of
\* the context it ran on.
Call(op, ok, ret, calls, events, ctx, arg, bytes) ==
  [op |-> op, ok |-> ok, ret |-> ret, calls |-> calls, events |-> events, ctx |-> ctx,
   arg |-> arg, bytes |-> bytes, ready |-> JNI_isInitialized,
   pre |-> IF ctx # NULL THEN globals[ctx] ELSE {}]

\* Java_com_quickjs_android_QuickJSBridge_initializeQuickJS (lines 574-591)
initializeQuickJS(rtOk, ctxOk) ==
  LET E0 == IF engine THEN eng ELSE NewEngine
      m0 == initializeHttpPolyfill(Begin(native), bridge)
      r == initialize(E0, m0, globals, rtOk, ctxOk)
  IN /\ engine' = TRUE
     /\ eng' = r.eng
     /\ bridge' = TRUE
     /\ native' = End(r.m)
     /\ globals' = r.globals
     /\ last' = Call("initializeQuickJS", r.ok, "", {}, r.m.events, NULL, 0, NoBytes)
     /\ hist' = [hist EXCEPT !.initSinceTeardown = TRUE,
                             !.degraded = IF r.ok THEN FALSE ELSE @]

\* Java_com_quickjs_android_QuickJSBridge_executeScript (lines 594-605)
executeScriptJNI(i) ==
  IF ~engine
    THEN /\ last' = Call("executeScript", FALSE, NotInitializedText, {}, <<>>, NULL, i, NoBytes)
         /\ UNCHANGED <<engine, eng, bridge, native, globals, hist>>
    ELSE LET r == executeScript(eng, Begin(native), globals, i)
             defines == r.ctx # NULL /\ ScriptTable[i].kind = "define"
         IN /\ native' = End(r.m)
            /\ globals' = r.globals
            /\ last' = Call("executeScript", r.ctx # NULL, r.ret, r.calls, r.m.events,
                            r.ctx, i, NoBytes)
            /\ hist' = IF defines
                         THEN [hist EXCEPT !.everDefined = @ \cup {ScriptTable[i].g},
                                           !.sinceReset = @ \cup {ScriptTable[i].g}]
                         ELSE hist
            /\ UNCHANGED <<engine, eng, bridge>>

\* Mutant of cleanupQuickJS: the test of line 612 inverted, so that an
\* existing engine is left as it is.
cleanupQuickJS_inverted ==
  /\ last' = Call("cleanupQuickJS", TRUE, "", {}, <<>>, NULL, 0, NoBytes)
  /\ hist' = [hist EXCEPT !.initSinceTeardown = FALSE]
  /\ UNCHANGED <<engine, eng, bridge, native, globals>>

\* Java_com_quickjs_android_QuickJSBridge_cleanupQuickJS (lines 607-617)
cleanupQuickJS ==
  IF engine
    THEN LET r == cleanup(eng, Begin(native), globals) IN
         /\ engine' = FALSE
         /\ eng' = NewEngine
         /\ native' = End(r.m)
         /\ globals' = r.globals
         /\ last' = Call("cleanupQuickJS", TRUE, "", {}, r.m.events, NULL, 0, NoBytes)
         /\ hist' = [hist EXCEPT !.initSinceTeardown = FALSE]
         /\ UNCHANGED bridge
    ELSE /\ last' = Call("cleanupQuickJS", TRUE, "", {}, <<>>, NULL, 0, NoBytes)
         /\ hist' = [hist EXCEPT !.initSinceTeardown = FALSE]
         /\ UNCHANGED <<engine, eng, bridge, native, globals>>

\* Java_com_quickjs_android_QuickJSBridge_resetContext (lines 625-629)
resetContextJNI(ctxOk) ==
  IF ~engine
    THEN /\ last' = Call("resetContext", FALSE, "", {}, <<>>, NULL, 0, NoBytes)
         /\ UNCHANGED <<engine, eng, bridge, native, globals, hist>>
    ELSE LET r == resetContext(eng, Begin(native), globals, ctxOk) IN
         /\ eng' = r.eng
         /\ native' = End(r.m)
         /\ globals' = r.globals
         /\ last' = Call("resetContext", r.ok, "", {}, r.m.events, NULL, 0, NoBytes)
         /\ hist' = [hist EXCEPT
                       !.degraded = IF ~r.ok /\ eng.runtime # NULL THEN TRUE ELSE @,
                       !.resetOk = IF r.ok THEN TRUE ELSE @,
                       !.stale = IF r.ok THEN hist.everDefined ELSE @,
                       !.sinceReset = IF r.ok THEN {} ELSE @]
         /\ UNCHANGED <<engine, bridge>>

\* Java_com_quickjs_android_QuickJSBridge_compileScript (lines 631-697);
\* allocOk: JS_WriteObject and NewByteArray both give their buffer.
compileScript(i, allocOk) ==
  IF ~engine \/ ~isInitialized(eng) \/ eng.context = NULL
    THEN /\ last' = Call("compileScript", FALSE, "", {}, <<>>, NULL, 0, NoBytes)
         /\ UNCHANGED <<engine, eng, bridge, native, globals, hist>>
    ELSE LET bytes == IF allocOk THEN CompileBytes(i) ELSE NoBytes
             m == UseContext(Begin(native), eng.context)
         IN /\ native' = End(m)
            /\ last' = Call("compileScript", bytes # NoBytes, "",
                            IF JS_Compile(i) = 0 THEN {"JS_Eval(COMPILE_ONLY)"}
                            ELSE {"JS_Eval(COMPILE_ONLY)", "JS_WriteObject"},
                            <<>>, NULL, i, bytes)
            /\ UNCHANGED <<engine, eng, bridge, globals, hist>>

\* Java_com_quickjs_android_QuickJSBridge_executeBytecode line 702
BytecodeNotInitialized == ~engine \/ ~isInitialized(eng)

\* Java_com_quickjs_android_QuickJSBridge_executeBytecode (lines 700-810)
executeBytecode(bytes, dataOk) ==
  IF BytecodeNotInitialized
    THEN /\ last' = Call("executeBytecode", FALSE, NotInitializedText, {}, <<>>, NULL, 0, bytes)
         /\ UNCHANGED <<engine, eng, bridge, native, globals, hist>>
    ELSE LET o == EvalBytecode(bytes, dataOk, eng.context, globals[eng.context])
             used == o.calls # {}
             ran == "JS_EvalFunction" \in o.calls
             fn == JS_ReadObject(bytes)
             defines == ran /\ ScriptTable[fn].kind = "define"
         IN /\ native' = IF used THEN End(UseContext(Begin(native), eng.context)) ELSE native
            /\ globals' = [globals EXCEPT ![eng.context] = o.globals]
            /\ last' = Call("executeBytecode", ran, o.ret, o.calls, <<>>,
                            IF ran THEN eng.context ELSE NULL, IF ran THEN fn ELSE 0, bytes)
            /\ hist' = IF defines
                         THEN [hist EXCEPT !.everDefined = @ \cup {ScriptTable[fn].g},
                                           !.sinceReset = @ \cup {ScriptTable[fn].g}]
                         ELSE hist
            /\ UNCHANGED <<engine, eng, bridge>>

\* ------------------------------------------------- the finer-grained views
views == <<ev, http, thr, tm, xhr>>
session == <<engine, eng, bridge, native, globals, last, hist>>

\* No executeScript call is being followed.
EvIdle ==
  [pc |-> "Idle", prog |-> [id |-> 0, settles |-> TRUE, jobs |-> 0],
   r |-> EngineResult(FALSE, JSVal("", "", ""), "none", {}),
   queue |-> 0, ran |-> 0, ret |-> "", awaited |-> FALSE]

\* No script has called _nativeHttpRequest.
HttpIdle ==
  [pc |-> "none", method |-> TRUE, via |-> "", args |-> "", envOk |-> TRUE, host |-> "",
   thrown |-> FALSE, v |-> JSVal("", "", ""), ret |-> ""]

\* No host thread is inside a bridge call.
ThreadsIdle == [serialized |-> TRUE, t |-> <<>>]

\* What a timer call has returned: nothing yet, undefined, a number.
NoValue == [type |-> "none", n |-> 0]
UndefinedValue == [type |-> "undefined", n |-> 0]
NumberValue(n) == [type |-> "number", n |-> n]

\* A script on a fresh context (the polyfills as installed) that has made
\* no timer call: calls counts its calls, runs the callback invocations.
TimerStart ==
  [pc |-> "script", via |-> "", arg |-> "", cb |-> "", invoked |-> 0, pending |-> 0,
   ret |-> NoValue, calls |-> 0, runs |-> 0, before |-> 0]

\* No script is using the timer polyfills.
TimerIdle == [TimerStart EXCEPT !.pc = "none"]

\* The fields a response without status and statusText gives (lines 307-308).
NoResponse == [status |-> 0, statusText |-> ""]

\* new XMLHttpRequest() (lines 269-279).  call is the method running or run
\* last, seen the readyStates the handler has noted during it, threw
\* whether an exception left it.
NewXhr ==
  [pc |-> "script", readyState |-> 0, status |-> 0, statusText |-> "", handler |-> "null",
   call |-> "new", seen |-> <<>>, threw |-> FALSE, outcome |-> "none", resp |-> NoResponse]

\* No script is using an XMLHttpRequest object.
XhrIdle == [NewXhr EXCEPT !.pc = "none"]

\* ----------------------------------------------------------- specification
\* Nothing allocated, no call made yet.
NoResources ==
  [rts |-> {}, ctxs |-> {}, nrt |-> 1, nctx |-> 1,
   owner |-> [c \in ContextIds |-> NULL], refs |-> 0, faults |-> {}]
NoGlobals == [c \in ContextIds |-> {}]
NoCall ==
  [op |-> "none", ok |-> FALSE, ret |-> "", calls |-> {}, events |-> <<>>,
   ctx |-> NULL, arg |-> 0, bytes |-> NoBytes, ready |-> FALSE, pre |-> {}]
NoHistory ==
  [initSinceTeardown |-> FALSE, degraded |-> FALSE, resetOk |-> FALSE,
   everDefined |-> {}, stale |-> {}, sinceReset |-> {}]

\* The process has loaded the library and made no call yet (lines 22-26, 569).
Init ==
  /\ ev = EvIdle
  /\ http = HttpIdle
  /\ thr = ThreadsIdle
  /\ tm = TimerIdle
  /\ xhr = XhrIdle
  /\ engine = FALSE
  /\ eng = NewEngine
  /\ bridge = FALSE
  /\ native = NoResources
  /\ globals = NoGlobals
  /\ last = NoCall
  /\ hist = NoHistory

\* The host calls the bridge one call at a time, in any order.
Next ==
  \/ \E rtOk \in BOOLEAN, ctxOk \in BOOLEAN :
       initializeQuickJS(rtOk, ctxOk) /\ UNCHANGED views
  \/ \E i \in ScriptIds : executeScriptJNI(i) /\ UNCHANGED views
  \/ cleanupQuickJS /\ UNCHANGED views
  \/ \E ctxOk \in BOOLEAN : resetContextJNI(ctxOk) /\ UNCHANGED views
  \/ \E i \in ScriptIds, allocOk \in BOOLEAN : compileScript(i, allocOk) /\ UNCHANGED views
  \/ \E bytes \in ForeignBytes \cup CompiledBytes, dataOk \in BOOLEAN :
       executeBytecode(bytes, dataOk) /\ UNCHANGED views

Spec == Init /\ [][Next]_vars

\* ------------------------------------- one evaluation, statement by statement
\* How many jobs a program leaves on the job queue at most.
MaxJobs == 2

\* The session after a first, successful initializeQuickJS (lines 574-591).
Ready ==
  initialize(NewEngine, initializeHttpPolyfill(Begin(NoResources), FALSE), NoGlobals, TRUE, TRUE)

ReadyInit ==
  /\ engine = TRUE
  /\ eng = Ready.eng
  /\ bridge = TRUE
  /\ native = End(Ready.m)
  /\ globals = Ready.globals
  /\ last = [NoCall EXCEPT !.op = "initializeQuickJS", !.ok = TRUE, !.events = Ready.m.events]
  /\ hist = [NoHistory EXCEPT !.initSinceTeardown = TRUE]

\* A program text: a script of the table; for one that returns a promise,
\* the jobs it leaves on the queue and whether the promise is settled once
\* they have run (Promise.resolve(42): no job, settled;
\* Promise.resolve().then(f): one job, settled; new Promise(function(){}):
\* no job, never settled).  Id 0 is "for(;;);", which JS_Eval never returns from.
Program(i, settles, jobs) == [id |-> i, settles |-> settles, jobs |-> jobs]
Diverges(p) == p.id = 0
PromiseIds == { i \in ScriptIds : ScriptTable[i].kind \in {"resolve", "reject"} }
Programs ==
  { Program(i, TRUE, 0) : i \in ScriptIds \cup {0} }
    \cup { Program(i, st, j) : i \in PromiseIds, st \in BOOLEAN, j \in 0..MaxJobs }

\* JS_PromiseState as js_std_await reads it: with jobs still queued, or with
\* nothing to settle it, the promise is pending.
JS_PromiseState(r, p, queue) ==
  IF r.promise = "none" THEN "none"
  ELSE IF queue = 0 /\ p.settles THEN r.promise
  ELSE "pending"

\* executeScript lines 407-447: the text for an exception of JS_Eval
ExceptionText(v) ==
  ErrorText("JavaScript Error: ", v,
            "Unknown error (exception object could not be converted to string)")

\* Mutant of RejectionText: a rejection reported as an evaluation error.
RejectionText_asException(v) == ExceptionText(v)

\* executeScript lines 455-491: the text for an exception of js_std_await
RejectionText(v) ==
  ErrorText("Promise Rejection: ", v,
            "Unknown error (promise rejection could not be converted to string)")

\* QuickJSEngine::executeScript lines 399-405: the guard, then the call of JS_Eval.
evCall(p) ==
  /\ ev.pc \in {"Idle", "Succeeded", "Failed"}
  /\ ev' = IF NotInitialized(eng)
             THEN [EvIdle EXCEPT !.pc = "Failed", !.prog = p, !.ret = NotInitializedText]
             ELSE [EvIdle EXCEPT !.pc = "Evaluating", !.prog = p]
  /\ UNCHANGED <<session, http, thr, tm, xhr>>

\* Lines 406-450: JS_Eval runs the program; an exception is described and
\* returned, any other result goes to js_std_await.  A program that does not
\* end keeps JS_Eval running.
evJSEval ==
  /\ ev.pc = "Evaluating"
  /\ IF Diverges(ev.prog)
       THEN UNCHANGED vars
       ELSE LET r == JS_Eval(ScriptTable[ev.prog.id], globals[eng.context]) IN
            /\ ev' = IF r.exc
                       THEN [ev EXCEPT !.pc = "Failed", !.r = r, !.ret = ExceptionText(r.v)]
                       ELSE [ev EXCEPT !.pc = "Awaiting", !.r = r, !.queue = ev.prog.jobs,
                                       !.awaited = TRUE]
            /\ globals' = [globals EXCEPT ![eng.context] = r.globals]
            /\ UNCHANGED <<engine, eng, bridge, native, last, hist, http, thr, tm, xhr>>

\* Lines 452-510: one turn of the loop of js_std_await, and what
\* executeScript makes of its result once it returns.  A pending promise
\* has one job run; with no job left the loop turns without any change.
evAwait ==
  /\ ev.pc = "Awaiting"
  /\ LET state == JS_PromiseState(ev.r, ev.prog, ev.queue)
         a == js_std_await(ev.r)
     IN IF state = "pending"
          THEN IF ev.queue > 0
                 THEN /\ ev' = [ev EXCEPT !.queue = @ - 1, !.ran = @ + 1]
                      /\ UNCHANGED <<session, http, thr, tm, xhr>>
                 ELSE UNCHANGED vars
          ELSE /\ ev' = IF a.exc
                          THEN [ev EXCEPT !.pc = "Failed", !.r = a, !.ret = RejectionText(a.v)]
                          ELSE [ev EXCEPT !.pc = "Succeeded", !.r = a, !.ret = ResultText(a.v)]
               /\ UNCHANGED <<session, http, thr, tm, xhr>>

EvalInit ==
  ReadyInit /\ ev = EvIdle /\ http = HttpIdle /\ thr = ThreadsIdle /\ tm = TimerIdle /\ xhr = XhrIdle

EvalNext ==
  \/ \E p \in Programs : evCall(p)
  \/ evJSEval
  \/ evAwait

\* The thread inside executeScript keeps running.
SpecEval == EvalInit /\ [][EvalNext]_vars /\ WF_vars(evJSEval) /\ WF_vars(evAwait)

\* ------------------------------ one host-bridge network call, step by step
\* The errors js_http_request throws (lines 38, 44, 53, 64, 81) and the one
\* JS_ParseJSON throws for a text that is not JSON (line 86).
JSError(name, message) == JSVal(name \o ": " \o message, name, message)
ServiceNotAvailable == JSError("ReferenceError", "HTTP service not available")
UrlNotString == JSError("TypeError", "URL must be a string")
OptionsNotString == JSError("TypeError", "Options must be an object")
NoJniEnvironment == JSError("InternalError", "Failed to get JNI environment")
RequestFailed == JSError("InternalError", "HTTP request failed")
NotJSON == JSError("SyntaxError", "unexpected token")
\* fetch polyfill line 260
NetworkRequestFailed == JSError("Error", "Network request failed")

\* What the script passes: nothing, a URL, a URL and options, a URL or
\* options JS_ToCString cannot convert (a Symbol).
DirectArgs == {"none", "url", "url,options", "badurl", "url,badoptions"}
\* fetch always passes two arguments, the second one a string (line 228)
FetchArgs == {"url,options", "badurl"}

\* What handleHttpRequest does on the Java side: returns a JSON object with
\* a status, a JSON object without one, the JSON text null, a text that is
\* not JSON, no string at all (null), or raises an exception.
HostBehaviours == {"response", "nostatus", "jsonnull", "nonjson", "null", "exception"}

\* The parsed values, by their string form.
ParsedValue(host) ==
  IF host = "jsonnull" THEN JSVal("null", "undefined", "undefined")
  ELSE JSVal("[object Object]", "undefined", "undefined")

\* Line 37, for a call that passes a URL
ServiceAvailable == bridge /\ http.method

\* The script reaches its call of _nativeHttpRequest, directly at top level
\* or inside fetch (lines 217-228).
httpCall(via, args) ==
  /\ http.pc \in {"none", "Returned"}
  /\ isInitialized(eng)
  /\ http' = [HttpIdle EXCEPT !.pc = "Calling", !.method = http.method, !.via = via,
                              !.args = args]
  /\ UNCHANGED <<session, ev, thr, tm, xhr>>

\* How a call of the native function ends: it throws e, gives v, or the
\* process is aborted in it.
Threw(e) == [kind |-> "throw", v |-> e]
Gave(v) == [kind |-> "value", v |-> v]
Aborted == [kind |-> "abort", v |-> JSVal("", "", "")]

\* Lines 85-86 with jResult == NULL: GetStringUTFChars(NULL) and strlen of
\* what it gives are undefined; the process is aborted, or some bytes are
\* read that JS_ParseJSON rejects.
NullResultOutcomes == { Aborted, Threw(NotJSON) }

\* js_http_request (lines 36-95) as a function of what it is given:
\* available: line 37; envOk: g_jvm->GetEnv gives JNI_OK (line 61).
HttpRequestOutcomes(args, available, envOk, host) ==
  IF args = "none" \/ ~available THEN {Threw(ServiceNotAvailable)}
  ELSE IF args = "badurl" THEN {Threw(UrlNotString)}
  ELSE IF args = "url,badoptions" THEN {Threw(OptionsNotString)}
  ELSE IF ~envOk THEN {Threw(NoJniEnvironment)}
  ELSE IF host = "exception" THEN {Threw(RequestFailed)}
  ELSE IF host = "null" THEN NullResultOutcomes
  ELSE IF host = "nonjson" THEN {Threw(NotJSON)}
  ELSE {Gave(ParsedValue(host))}

\* The script's call of _nativeHttpRequest runs js_http_request.
js_http_request(envOk, host) ==
  /\ http.pc = "Calling"
  /\ \E o \in HttpRequestOutcomes(http.args, ServiceAvailable, envOk, host) :
       http' = [http EXCEPT !.pc = IF o = Aborted THEN "Crashed" ELSE "Back",
                            !.thrown = o.kind = "throw", !.v = o.v,
                            !.envOk = envOk, !.host = host]
  /\ UNCHANGED <<session, ev, thr, tm, xhr>>

\* What the evaluation of the calling script comes to.  At top level the
\* exception is the evaluation's (lines 407-447), the value its result.
\* In fetch (lines 228-264) the exception rejects the promise, a response
\* with a status resolves it, any other value rejects it; js_std_await
\* finds the promise settled (lines 452-510).
httpReturn ==
  /\ http.pc = "Back"
  /\ http' = [http EXCEPT !.pc = "Returned", !.ret =
       IF http.via = "direct"
         THEN IF http.thrown THEN ExceptionText(http.v) ELSE ResultText(http.v)
       ELSE IF http.thrown THEN RejectionText(http.v)
       ELSE IF http.host = "response" THEN ResultText(http.v)
       ELSE RejectionText(NetworkRequestFailed)]
  /\ UNCHANGED <<session, ev, thr, tm, xhr>>

\* initializeHttpPolyfill lines 104-110: GetMethodID finds handleHttpRequest
\* on the bridge class, or not.
HttpInit ==
  /\ ReadyInit
  /\ \E found \in BOOLEAN : http = [HttpIdle EXCEPT !.method = found]
  /\ ev = EvIdle /\ thr = ThreadsIdle /\ tm = TimerIdle /\ xhr = XhrIdle

HttpNext ==
  \/ \E args \in DirectArgs : httpCall("direct", args)
  \/ \E args \in FetchArgs : httpCall("fetch", args)
  \/ \E envOk \in BOOLEAN, host \in HostBehaviours : js_http_request(envOk, host)
  \/ httpReturn

SpecHttp == HttpInit /\ [][HttpNext]_vars

\* ------------------------------------------- host threads inside bridge calls
\* Nothing in the file takes a lock: a bridge call runs on the thread the
\* host makes it on, and its statements interleave with those of any call
\* another thread is in.  thr.serialized says whether the host itself makes
\* its calls one at a time.
Threads == {"T1", "T2"}
Operations == {"evaluate", "compile", "reset", "teardown"}
ThreadIdle == [pc |-> "idle", op |-> "none", ctx |-> NULL]

\* The scripts the threads submit: 1+2, and var g = 1; g.
ThreadScripts == { i \in ScriptIds : ScriptTable[i].kind \in {"value", "define"} }

Inside(t) == thr.t[t].pc # "idle"

\* The host makes the call: the thread enters the JNI function.
thrEnter(t, op) ==
  /\ ~Inside(t)
  /\ thr.serialized => \A u \in Threads : ~Inside(u)
  /\ thr' = [thr EXCEPT !.t[t] = [pc |-> "entered", op |-> op, ctx |-> NULL]]
  /\ UNCHANGED <<session, ev, http, tm, xhr>>

\* The guard the call starts with holds, and the call returns:
\* executeScript lines 596-598 and 400-404, compileScript 633-649,
\* resetContext 626 and 515-518, cleanupQuickJS 612.
GuardReturns(op) ==
  CASE op = "evaluate" -> ~engine \/ NotInitialized(eng)
    [] op = "compile"  -> ~engine \/ ~isInitialized(eng) \/ eng.context = NULL
    [] op = "reset"    -> ~engine \/ eng.runtime = NULL
    [] op = "teardown" -> ~engine

\* Past the guard, a compile holds the context it read (line 645).
thrGuard(t) ==
  /\ thr.t[t].pc = "entered"
  /\ thr' = IF GuardReturns(thr.t[t].op)
              THEN [thr EXCEPT !.t[t] = ThreadIdle]
              ELSE [thr EXCEPT !.t[t].pc = "guarded",
                               !.t[t].ctx = IF thr.t[t].op = "compile" THEN eng.context ELSE NULL]
  /\ UNCHANGED <<session, ev, http, tm, xhr>>

\* this->context read from an engine object another thread has deleted, or
\* a null context handed to the library.
UseEngineContext(m) ==
  IF ~engine THEN [m EXCEPT !.faults = @ \cup {"engine used after delete"}]
  ELSE IF eng.context = NULL THEN [m EXCEPT !.faults = @ \cup {"null context used"}]
  ELSE UseContext(m, eng.context)

\* The first engine call of the operation:
\*   evaluate: JS_Eval(context, ...) starts on the context read now (line 407);
\*   compile:  JS_Eval(context, ..., COMPILE_ONLY) on the context held (652);
\*   reset:    JS_FreeContext(context); context = nullptr (521-524);
\*   teardown: JS_FreeContext(context); context = nullptr (545-548).
thrRun(t) ==
  /\ thr.t[t].pc = "guarded"
  /\ LET op == thr.t[t].op
         m == Begin(native)
     IN CASE op = "evaluate" ->
               /\ native' = End(UseEngineContext(m))
               /\ thr' = [thr EXCEPT !.t[t].pc = "running", !.t[t].ctx = eng.context]
               /\ UNCHANGED <<engine, eng, globals>>
          [] op = "compile" ->
               /\ native' = End(UseContext(m, thr.t[t].ctx))
               /\ thr' = [thr EXCEPT !.t[t] = ThreadIdle]
               /\ UNCHANGED <<engine, eng, globals>>
          [] op \in {"reset", "teardown"} ->
               /\ native' = End(FreeOldContext(eng, m))
               /\ eng' = [eng EXCEPT !.context = NULL]
               /\ globals' = IF eng.context # NULL
                               THEN [globals EXCEPT ![eng.context] = {}] ELSE globals
               /\ thr' = [thr EXCEPT !.t[t].pc = "freed"]
               /\ UNCHANGED engine
  /\ UNCHANGED <<bridge, last, hist, ev, http, tm, xhr>>

\* The rest of the operation:
\*   evaluate: the program runs and its result is awaited and converted on
\*             the context JS_Eval was started on (407-510);
\*   reset:    context = JS_NewContext(runtime) and the polyfills (526-540);
\*   teardown: JS_FreeRuntime, initialized = false, delete (550-556, 613-614).
thrFinish(t, i, ctxOk) ==
  /\ thr.t[t].pc \in {"running", "freed"}
  /\ LET op == thr.t[t].op
         m == Begin(native)
         c == thr.t[t].ctx
     IN CASE op = "evaluate" ->
               /\ native' = End(IF c = NULL THEN m ELSE UseContext(m, c))
               /\ globals' = IF c \in native.ctxs
                               THEN [globals EXCEPT ![c] = EvalSource(i, globals[c]).globals]
                               ELSE globals
               /\ UNCHANGED <<engine, eng>>
          [] op = "reset" ->
               LET m2 == JS_NewContext(m, eng.runtime, ctxOk) IN
               /\ native' = End(m2)
               /\ eng' = IF m2.ret = NULL THEN ResetFailed(eng) ELSE ResetDone(eng, m2.ret)
               /\ globals' = IF m2.ret = NULL THEN globals
                             ELSE [globals EXCEPT ![m2.ret] = InstalledGlobals]
               /\ UNCHANGED engine
          [] op = "teardown" ->
               LET r == cleanup(eng, m, globals) IN
               /\ native' = End(r.m)
               /\ globals' = r.globals
               /\ engine' = FALSE
               /\ eng' = NewEngine
  /\ thr' = [thr EXCEPT !.t[t] = ThreadIdle]
  /\ UNCHANGED <<bridge, last, hist, ev, http, tm, xhr>>

ThreadsInit ==
  /\ ReadyInit
  /\ \E s \in BOOLEAN : thr = [serialized |-> s, t |-> [t \in Threads |-> ThreadIdle]]
  /\ ev = EvIdle /\ http = HttpIdle /\ tm = TimerIdle /\ xhr = XhrIdle

ThreadsNext ==
  \E t \in Threads :
    \/ \E op \in Operations : thrEnter(t, op)
    \/ thrGuard(t)
    \/ thrRun(t)
    \/ \E i \in ThreadScripts, ctxOk \in BOOLEAN : thrFinish(t, i, ctxOk)

SpecThreads == ThreadsInit /\ [][ThreadsNext]_vars

\* ------------------------------------------------ the timer polyfills at work
\* How many timer calls the script makes.
MaxTimerCalls == 3

\* The delays the script passes: none (undefined), negative, zero, a second.
Delays == {"undefined", "-1", "0", "1000"}
\* The ids it passes to clearTimeout / clearInterval: the one it was given,
\* another one, none.
TimerArgs == {"undefined", "1", "2"}
\* The callback returns, or throws.
Callbacks == {"returns", "throws"}

\* The script calls one of the four functions (lines 167, 178, 182, 186).
tmCall(fn, arg, cb) ==
  /\ tm.pc \in {"script", "returned", "thrown"}
  /\ tm.calls < MaxTimerCalls
  /\ TimerGlobals \subseteq globals[eng.context]
  /\ tm' = [tm EXCEPT !.pc = fn, !.via = fn, !.arg = arg, !.cb = cb, !.invoked = 0,
                      !.ret = NoValue, !.calls = @ + 1, !.before = tm.runs]
  /\ UNCHANGED <<session, ev, http, thr, xhr>>

\* setInterval: return setTimeout(callback, delay) (line 183);
\* clearInterval: clearTimeout(id) (line 187).
tmForward ==
  /\ tm.pc \in {"setInterval", "clearInterval"}
  /\ tm' = [tm EXCEPT !.pc = IF tm.pc = "setInterval" THEN "setTimeout" ELSE "clearTimeout"]
  /\ UNCHANGED <<session, ev, http, thr, xhr>>

\* Mutant of tmInvoke: the callback is put aside to run after the delay.
tmInvoke_deferred ==
  /\ tm.pc = "setTimeout"
  /\ tm' = [tm EXCEPT !.pc = "return", !.pending = @ + 1]
  /\ UNCHANGED <<session, ev, http, thr, xhr>>

\* setTimeout lines 170-172: try { callback(); }
tmInvoke ==
  /\ tm.pc = "setTimeout"
  /\ tm' = [tm EXCEPT !.pc = IF tm.cb = "throws" THEN "catch" ELSE "return",
                      !.invoked = @ + 1, !.runs = @ + 1]
  /\ UNCHANGED <<session, ev, http, thr, xhr>>

\* setTimeout lines 172-174: catch (e) { throw e; }; the exception leaves
\* setTimeout and, under setInterval, the return statement of line 183.
tmCatch ==
  /\ tm.pc = "catch"
  /\ tm' = [tm EXCEPT !.pc = "thrown"]
  /\ UNCHANGED <<session, ev, http, thr, xhr>>

\* setTimeout line 175: return 1 (setInterval returns what setTimeout
\* returned); clearTimeout has an empty body (178-180) and clearInterval
\* no return statement (186-188).
tmReturn ==
  /\ tm.pc \in {"return", "clearTimeout"}
  /\ tm' = [tm EXCEPT !.pc = "returned",
                      !.ret = IF tm.pc = "return" THEN NumberValue(1) ELSE UndefinedValue]
  /\ UNCHANGED <<session, ev, http, thr, xhr>>

TimerInit ==
  /\ ReadyInit
  /\ tm = TimerStart
  /\ ev = EvIdle /\ http = HttpIdle /\ thr = ThreadsIdle /\ xhr = XhrIdle

TimerNext ==
  \/ \E fn \in {"setTimeout", "setInterval"}, d \in Delays, cb \in Callbacks : tmCall(fn, d, cb)
  \/ \E fn \in {"clearTimeout", "clearInterval"}, id \in TimerArgs : tmCall(fn, id, "")
  \/ tmForward
  \/ tmInvoke
  \/ tmCatch
  \/ tmReturn

SpecTimers == TimerInit /\ [][TimerNext]_vars

\* ------------------------------------------- one XMLHttpRequest object in use
\* What the script has assigned to onreadystatechange: nothing (null), a
\* function that notes the readyState it sees, a function that throws.
Handlers == {"null", "records", "throws"}
\* The response the host gives when it gives one with a status.
HostResponses == { [status |-> 200, statusText |-> "OK"],
                   [status |-> 404, statusText |-> "Not Found"] }

\* Entering a method of the object.
Enter(x, method) ==
  [x EXCEPT !.call = method, !.seen = <<>>, !.threw = FALSE, !.outcome = "none",
            !.resp = NoResponse]

\* if (this.onreadystatechange) this.onreadystatechange(); (lines 285, 296, 312, 318)
Notify(x) ==
  CASE x.handler = "null"    -> x
    [] x.handler = "records" -> [x EXCEPT !.seen = Append(@, x.readyState)]
    [] x.handler = "throws"  -> [x EXCEPT !.seen = Append(@, x.readyState), !.threw = TRUE]

\* Mutant of SendFailed: the catch block leaves readyState as it is.
SendFailed_notDone(x) ==
  Notify([x EXCEPT !.status = 0, !.statusText = "Error", !.threw = FALSE])

\* send, the catch block (lines 313-319)
SendFailed(x) ==
  Notify([x EXCEPT !.status = 0, !.statusText = "Error", !.readyState = 4, !.threw = FALSE])

\* send, the rest of the try block once the request has returned
\* (lines 307-312); an exception of the handler is caught by line 313.
SendSucceeded(x, resp) ==
  LET y == Notify([x EXCEPT !.status = resp.status, !.statusText = resp.statusText,
                            !.readyState = 4])
  IN IF y.threw THEN SendFailed(y) ELSE y

xhrNew ==
  /\ xhr.pc = "none"
  /\ "XMLHttpRequest" \in globals[eng.context]
  /\ xhr' = NewXhr
  /\ UNCHANGED <<session, ev, http, thr, tm>>

\* The script assigns onreadystatechange.
xhrSetHandler(h) ==
  /\ xhr.pc = "script"
  /\ xhr' = [Enter(xhr, "onreadystatechange =") EXCEPT !.handler = h]
  /\ UNCHANGED <<session, ev, http, thr, tm>>

\* open(method, url, async) (lines 281-286)
xhrOpen ==
  /\ xhr.pc = "script"
  /\ xhr' = Notify([Enter(xhr, "open") EXCEPT !.readyState = 1])
  /\ UNCHANGED <<session, ev, http, thr, tm>>

\* send(body) up to the request (lines 292-296); an exception of the
\* handler leaves send here.
xhrSend ==
  /\ xhr.pc = "script"
  /\ LET x == Notify([Enter(xhr, "send") EXCEPT !.readyState = 2])
     IN xhr' = IF x.threw THEN x ELSE [x EXCEPT !.pc = "request"]
  /\ UNCHANGED <<session, ev, http, thr, tm>>

\* send, line 305: _nativeHttpRequest(this._url, JSON.stringify(options))
xhrRequest(envOk, host, resp) ==
  /\ xhr.pc = "request"
  /\ \E o \in HttpRequestOutcomes("url,options", ServiceAvailable, envOk, host) :
       xhr' = [xhr EXCEPT !.pc = IF o = Aborted THEN "Crashed" ELSE "response",
                          !.outcome = IF o.kind = "value" THEN host ELSE o.kind,
                          !.resp = IF o.kind = "value" /\ host = "response"
                                     THEN resp ELSE NoResponse]
  /\ UNCHANGED <<session, ev, http, thr, tm>>

\* send, lines 307-319: a response object fills the fields (a missing
\* status gives 0, a missing statusText ''); reading response.status of
\* null throws inside the try block, as the request itself may have.
xhrResponse ==
  /\ xhr.pc = "response"
  /\ xhr' = [(IF xhr.outcome \in {"response", "nostatus"}
                THEN SendSucceeded(xhr, xhr.resp) ELSE SendFailed(xhr))
             EXCEPT !.pc = "script"]
  /\ UNCHANGED <<session, ev, http, thr, tm>>

\* abort() (lines 322-324)
xhrAbort ==
  /\ xhr.pc = "script"
  /\ xhr' = [Enter(xhr, "abort") EXCEPT !.readyState = 0]
  /\ UNCHANGED <<session, ev, http, thr, tm>>

XhrInit ==
  /\ ReadyInit
  /\ \E found \in BOOLEAN : http = [HttpIdle EXCEPT !.method = found]
  /\ xhr = XhrIdle
  /\ ev = EvIdle /\ thr = ThreadsIdle /\ tm = TimerIdle

XhrNext ==
  \/ xhrNew
  \/ \E h \in Handlers : xhrSetHandler(h)
  \/ xhrOpen
  \/ xhrSend
  \/ \E envOk \in BOOLEAN, host \in HostBehaviours, resp \in HostResponses :
       xhrRequest(envOk, host, resp)
  \/ xhrResponse
  \/ xhrAbort

SpecXhr == XhrInit /\ [][XhrNext]_vars

\* ------------------------------------------------------------------ claims
\* What the last call did, read from its record.
Evaluated == last.op \in {"executeScript", "executeBytecode"}
RanScript == last.ctx # NULL
Range(f) == { f[k] : k \in DOMAIN f }
EventNames == [k \in DOMAIN last.events |-> last.events[k][1]]
\* every a among the call's events comes before every b
Before(a, b) ==
  \A j, k \in DOMAIN last.events :
    (EventNames[j] = a /\ EventNames[k] = b) => j < k

\* C1: evaluate(source) on a session whose isReady() is false returns the
\* not-initialized failure and runs the script on no context, whatever
\* sequence of calls (failed allocations and repeated initialize included)
\* led there.
C1_NotReadyNeverRuns ==
  (last.op = "executeScript" /\ ~last.ready)
    => (last.ret = NotInitializedText /\ ~RanScript /\ last.calls = {})

\* C2: with no initialize call made yet, or none since the last teardown,
\* evaluate(source) and evaluate(bytecode) return the not-initialized failure
\* and make no engine call.
C2_NoEngineCallBeforeInitialize ==
  (Evaluated /\ ~hist.initSinceTeardown)
    => (last.ret = NotInitializedText /\ last.calls = {} /\ ~RanScript)

\* C2 witness: compiled bytecode handed to evaluate after the teardown of a
\* session that had been initialized.
C2_Witness ==
  /\ last.op = "executeBytecode"
  /\ last.bytes \in CompiledBytes \ {NoBytes}
  /\ ~hist.initSinceTeardown
  /\ native.nrt > 1
  /\ last.ret = NotInitializedText

\* C3: no context is used after the runtime that owns it was destroyed, at
\* most one context created by the session is live at a time, and reset frees
\* the old context before it creates the new one.
C3_OneLiveContext ==
  /\ "context used after its runtime was freed" \notin native.faults
  /\ Cardinality(native.ctxs) <= 1
  /\ last.op = "resetContext" => Before("JS_FreeContext", "JS_NewContext")

\* C4: initialize returns false when the runtime or the context allocation
\* fails, and a failed initialize or reset leaves the session not ready and
\* not partially constructed: no runtime without a context, no context
\* without a runtime, no initialized flag over a missing handle.
C4_FailureNotPartial ==
  /\ (last.op = "initializeQuickJS" /\ "JS_NewContext" \notin Range(EventNames)) => ~last.ok
  /\ (last.op \in {"initializeQuickJS", "resetContext"} /\ ~last.ok)
       => /\ ~JNI_isInitialized
          /\ (eng.runtime = NULL) <=> (eng.context = NULL)
          /\ eng.initialized => (eng.runtime # NULL /\ eng.context # NULL)

\* C5: reset returns false and changes nothing when the session has no
\* runtime; when the runtime exists and the new context cannot be created,
\* reset returns false and isReady() stays false through every later call
\* until an initialize succeeds.
C5_ResetFailure ==
  /\ [](hist.degraded => ~JNI_isInitialized)
  /\ []((last.op = "resetContext" /\ engine /\ eng.runtime # NULL /\ eng.context = NULL)
          => (~last.ok /\ hist.degraded))
  /\ [][(last'.op = "resetContext" /\ (~engine \/ eng.runtime = NULL))
          => (~last'.ok /\ UNCHANGED <<engine, eng, bridge, native, globals, hist>>)]_vars

\* C5 witness: a reset that succeeds on a session degraded by an earlier
\* failed reset, which is still not ready.
C5_Witness ==
  /\ hist.degraded
  /\ last.op = "resetContext"
  /\ last.ok
  /\ eng.runtime # NULL /\ eng.context # NULL

\* C6: teardown frees the context before the runtime, frees no handle twice
\* and touches no freed handle in whatever state it is called, and leaves
\* isReady() false.
C6_TeardownSafe ==
  /\ native.faults = {}
  /\ last.op = "cleanupQuickJS"
       => /\ Before("JS_FreeContext", "JS_FreeRuntime")
          /\ ~JNI_isInitialized
          /\ eng.runtime = NULL /\ eng.context = NULL

\* C6 witness: the teardown of a session holding both handles, which frees
\* both.
C6_Witness ==
  /\ last.op = "cleanupQuickJS"
  /\ Len(last.events) = 2
  /\ EventNames = <<"JS_FreeContext", "JS_FreeRuntime">>

\* C7: after teardown the session holds no native resource: every runtime
\* and context it created is freed and the global reference to the host
\* bridge object is released.
C7_TeardownReleasesAll ==
  last.op = "cleanupQuickJS"
    => (native.rts = {} /\ native.ctxs = {} /\ native.refs = 0)

\* The last call was evaluate(bytecode), given what compile returns for a
\* script, and it ran the unit: the script, and what evaluate(source) gives
\* for it from the globals the call started with.
RoundTrip ==
  last.op = "executeBytecode" /\ last.bytes \in CompiledBytes \ {NoBytes} /\ RanScript
Unit == ScriptTable[JS_ReadObject(last.bytes)]
Direct == EvalSource(JS_ReadObject(last.bytes), last.pre)
ThrowsFrom(s, G) == JS_Eval(s, G).exc
RejectsUnprintable(s) == s.kind = "reject" /\ s.v.str = NULLSTR

BadBytes == last.op = "executeBytecode" /\ last.bytes \in ForeignBytes
DeserializationTexts ==
  { "Error: Bytecode deserialization failed",
    "Error: Bytecode deserialization failed: " \o ReadObjectError.str }

\* C9 as stated: evaluate(bytecode) given absent, empty or unrecognised
\* bytes returns "Error: Null bytecode", "Error: Empty bytecode" or
\* "Error: Bytecode deserialization failed..." in every session state and
\* executes nothing.
C9_BadBytesCodecFailure ==
  BadBytes =>
    /\ last.ret \in {"Error: Null bytecode", "Error: Empty bytecode"} \cup DeserializationTexts
    /\ ~RanScript /\ "JS_EvalFunction" \notin last.calls

\* C9 amended: in every session state such bytes are never executed; on a
\* session that is not ready the outcome is the not-initialized failure; on a
\* ready session absent bytes give "Error: Null bytecode", empty bytes
\* "Error: Empty bytecode", and unrecognised bytes "Error: Bytecode
\* deserialization failed..." or, when the byte data cannot be obtained from
\* the host array, "Error: Failed to get bytecode data".
C9_BadBytesAmended ==
  BadBytes =>
    /\ ~RanScript /\ "JS_EvalFunction" \notin last.calls /\ "js_std_await" \notin last.calls
    /\ ~last.ready => (last.ret = NotInitializedText /\ last.calls = {})
    /\ (last.ready /\ last.bytes = NoBytes) => last.ret = "Error: Null bytecode"
    /\ (last.ready /\ last.bytes = <<>>) => last.ret = "Error: Empty bytecode"
    /\ (last.ready /\ last.bytes \notin {NoBytes, <<>>})
         => last.ret \in DeserializationTexts \cup {"Error: Failed to get bytecode data"}

\* C9 witness: a byte array with a foreign version byte was given to a ready
\* session and refused by the deserializer.
C9_Witness ==
  /\ BadBytes
  /\ last.ready
  /\ last.bytes = <<BC_VERSION + 1, 1>>
  /\ last.calls = {"JS_ReadObject"}
  /\ last.ret \in DeserializationTexts

\* The last call was evaluate(source) of a script that reads a global which
\* scripts defined before the last successful reset and none has defined
\* since.
ReadsStaleGlobal ==
  /\ last.op = "executeScript"
  /\ ScriptTable[last.arg].kind = "read"
  /\ hist.resetOk
  /\ ScriptTable[last.arg].g \in hist.stale \ hist.sinceReset
ReferenceErrorText(g) == "JavaScript Error: ReferenceError: " \o g \o " is not defined"
FreshContext ==
  (last.op = "resetContext" /\ last.ok)
    => (eng.context # NULL /\ globals[eng.context] = InstalledGlobals
        /\ PolyfillGlobals \subseteq globals[eng.context])

\* C10 as stated: after a successful reset the new context has the polyfill
\* globals and none defined by earlier scripts, and evaluating a script that
\* reads such a global yields a reference-error failure.
C10_GlobalsDoNotSurviveReset ==
  /\ FreshContext
  /\ ReadsStaleGlobal => last.ret = ReferenceErrorText(ScriptTable[last.arg].g)

\* C10 amended: after a successful reset the new context has the polyfill
\* globals and none defined by earlier scripts; evaluating a script that
\* reads such a global never yields its value: it yields a reference-error
\* failure when isReady() is true, and the not-initialized failure when the
\* reset succeeded on a session whose initialized flag an earlier failed
\* reset had cleared.
C10_GlobalsDoNotSurviveResetAmended ==
  /\ FreshContext
  /\ ReadsStaleGlobal =>
       /\ last.ret \in {ReferenceErrorText(ScriptTable[last.arg].g), NotInitializedText}
       /\ last.ready => last.ret = ReferenceErrorText(ScriptTable[last.arg].g)
       /\ (last.ret = NotInitializedText) <=> (~eng.initialized \/ eng.context = NULL)

\* C10 witness: on a ready session, a read of a global defined before the
\* reset fails with the reference error.
C10_Witness ==
  /\ ReadsStaleGlobal
  /\ last.ready
  /\ RanScript
  /\ last.ret = "JavaScript Error: ReferenceError: g is not defined"

\* ---- C11
InProgress == ev.pc \in {"Evaluating", "Awaiting"}
Returned == ev.pc \in {"Succeeded", "Failed"}
EvKind == IF Diverges(ev.prog) THEN "diverges" ELSE ScriptTable[ev.prog.id].kind
JavaScriptErrors ==
  { "JavaScript Error: Error: boom", "JavaScript Error: E: m",
    "JavaScript Error: SyntaxError: unexpected token",
    "JavaScript Error: ReferenceError: g is not defined" }
PromiseRejections == { "Promise Rejection: Error: nope", "Promise Rejection: E: m" }

\* What a finished evaluation on a ready session returned: a promise has
\* been awaited until it settled, with every queued job run; fulfilled it
\* gives the string form of its value, rejected "Promise Rejection: " and
\* the description; an exception of the evaluation itself gives
\* "JavaScript Error: " and the description and was never awaited.
EvalOutcome ==
  /\ ev.pc \in {"Idle", "Evaluating", "Awaiting", "Succeeded", "Failed"}
  /\ ev.pc = "Awaiting" => ev.awaited
  /\ Returned =>
       /\ EvKind \in {"resolve", "reject"} =>
            ev.awaited /\ ev.prog.settles /\ ev.queue = 0 /\ ev.ran = ev.prog.jobs
       /\ EvKind = "resolve" =>
            ev.pc = "Succeeded" /\ ev.ret = ScriptTable[ev.prog.id].v.str
       /\ EvKind = "reject" => ev.pc = "Failed" /\ ev.ret \in PromiseRejections
       /\ EvKind \in {"throw", "syntax"} =>
            ev.pc = "Failed" /\ ev.ret \in JavaScriptErrors /\ ~ev.awaited
       /\ ev.pc = "Failed" => ev.ret \in JavaScriptErrors \cup PromiseRejections
       /\ ev.pc = "Succeeded" => ev.awaited /\ ev.ret \notin JavaScriptErrors \cup PromiseRejections

\* C11 as stated: every evaluate on a ready session goes from Evaluating to
\* Succeeded or Failed with the outcome above; in the form a finite run
\* refutes: an evaluation that has not returned can always take a step that
\* brings it on.
C11_EveryEvaluateReturns ==
  /\ EvalOutcome
  /\ InProgress => ENABLED <<evJSEval \/ evAwait>>_vars

\* The program ends and its promise, if it returns one, is settled once the
\* queued jobs have run.
ComesToAnEnd(p) == ~Diverges(p) /\ p.settles

\* C11, amended: an evaluate on a ready session whose program ends and whose
\* promise, if any, is settled once the queued jobs have run returns one
\* final outcome: the awaited promise's value as a string, "Promise
\* Rejection: " and the description for a rejection, "JavaScript Error: "
\* and the description, never awaited, for an exception of the evaluation.
\* No evaluate returns while its promise is pending.
C11_EvaluateReturnsAmended ==
  /\ []EvalOutcome
  /\ (InProgress /\ ComesToAnEnd(ev.prog)) ~> Returned

\* A rejection that took queued jobs to show has been reported.
C11_Witness ==
  ev.pc = "Failed" /\ EvKind = "reject" /\ ev.ran = MaxJobs /\ ev.ret \in PromiseRejections

\* ---- C12
\* The call failed on the bridge's side: nothing registered, no JNI
\* environment, the handler raised, or it gave no string or no JSON.
BridgeFailure ==
  /\ http.args \in {"url", "url,options"}
  /\ \/ ~ServiceAvailable
     \/ ~http.envOk
     \/ http.host \in {"exception", "null", "nonjson"}
BridgeErrors == {ServiceNotAvailable, NoJniEnvironment, RequestFailed, NotJSON}

\* C12: every failure of a host-bridge network call becomes a JavaScript
\* exception and reaches the caller of evaluate as a descriptive text
\* ("JavaScript Error: " or, through fetch, "Promise Rejection: " and the
\* error); no such failure ends the process.
C12_BridgeFailuresReported ==
  /\ http.pc # "Crashed"
  /\ http.pc \in {"Back", "Returned"} /\ BridgeFailure =>
       http.thrown /\ http.v \in BridgeErrors
  /\ http.pc = "Returned" /\ BridgeFailure =>
       http.ret = (IF http.via = "direct" THEN "JavaScript Error: " ELSE "Promise Rejection: ")
                    \o http.v.str

\* ---- C13
InProgress13 == { t \in Threads : Inside(t) }
\* An evaluation or a compile under way is on the session's current, live context.
ContextHeld(t) ==
  thr.t[t].pc = "running" \/ (thr.t[t].pc = "guarded" /\ thr.t[t].op = "compile")
OneAtATime ==
  /\ Cardinality(InProgress13) <= 1
  /\ \A t \in Threads : ContextHeld(t) =>
       thr.t[t].ctx \in native.ctxs /\ thr.t[t].ctx = eng.context
  /\ native.faults = {}

\* C13: with host calls arriving from more than one thread, the session
\* runs at most one evaluation, compile, reset or teardown at a time, and
\* no operation sees the context or runtime freed or replaced by another
\* operation midway.
C13_OneOperationAtATime == OneAtATime

\* C13, amended: when the host makes its calls one at a time, the session
\* runs at most one operation at a time and every evaluation and compile
\* runs on the session's current, live context.  (The session takes no
\* lock of its own.)
C13_OneOperationAtATimeAmended == thr.serialized => OneAtATime

\* A serialized host: the second thread evaluates on the context the first
\* thread's reset has created.
C13_Witness ==
  /\ thr.serialized
  /\ thr.t["T2"].pc = "running"
  /\ thr.t["T2"].ctx = eng.context
  /\ eng.context > 1

\* ---- C14
TimerCallOver == tm.pc \in {"returned", "thrown"}
SetsTimer == tm.via \in {"setTimeout", "setInterval"}
ClearsTimer == tm.via \in {"clearTimeout", "clearInterval"}

\* C14: setTimeout(callback, delay) and setInterval(callback, delay) have
\* invoked the callback exactly once when the call is over, whatever the
\* delay, and no callback is left to run later; the call returns the
\* number 1, unless the callback threw, and then its exception leaves the
\* call; clearTimeout and clearInterval run no callback, cancel nothing and
\* return undefined.
C14_TimersRunAtOnce ==
  /\ tm.pending = 0
  /\ tm.invoked <= 1
  /\ TimerCallOver /\ SetsTimer =>
       /\ tm.invoked = 1
       /\ tm.runs = tm.before + 1
       /\ tm.cb = "returns" => tm.pc = "returned" /\ tm.ret = NumberValue(1)
       /\ tm.cb = "throws" => tm.pc = "thrown" /\ tm.ret = NoValue
  /\ TimerCallOver /\ ClearsTimer =>
       /\ tm.pc = "returned"
       /\ tm.invoked = 0
       /\ tm.runs = tm.before
       /\ tm.ret = UndefinedValue

\* The script's second timer call, setInterval with a negative delay, has
\* run its callback and returned 1.
C14_Witness ==
  /\ tm.pc = "returned" /\ tm.via = "setInterval" /\ tm.arg = "-1"
  /\ tm.ret = NumberValue(1) /\ tm.runs = 2 /\ tm.calls = 2

\* ---- C15
XhrExists == xhr.pc # "none"
SendOver == xhr.call = "send" /\ xhr.pc = "script"
\* what a handler that is set has noted
Noted(s) == IF xhr.handler = "null" THEN <<>> ELSE s

\* C15: with an onreadystatechange handler that does not throw, readyState
\* is 0 on a new object, 1 after open, 2 while send waits for the native
\* request and 4 when send is over, whether the request gave a response or
\* threw (status 0 and statusText "Error" when it threw); the handler has
\* run once after each of these changes, seeing the new readyState;
\* readyState is never 3; abort sets 0 and does not run the handler.
C15_ReadyStates ==
  XhrExists =>
    /\ xhr.readyState \in {0, 1, 2, 4}
    /\ xhr.call = "new" => xhr.readyState = 0 /\ xhr.seen = <<>>
    /\ xhr.handler # "throws" =>
         /\ ~xhr.threw
         /\ xhr.call = "open" => xhr.readyState = 1 /\ xhr.seen = Noted(<<1>>)
         /\ xhr.call = "send" /\ xhr.pc \in {"request", "response", "Crashed"} =>
              xhr.readyState = 2 /\ xhr.seen = Noted(<<2>>)
         /\ SendOver => xhr.readyState = 4 /\ xhr.seen = Noted(<<2, 4>>)
         /\ SendOver /\ xhr.outcome = "throw" => xhr.status = 0 /\ xhr.statusText = "Error"
         /\ SendOver /\ xhr.outcome = "response" =>
              xhr.status = xhr.resp.status /\ xhr.statusText = xhr.resp.statusText
         /\ xhr.call = "abort" => xhr.readyState = 0 /\ xhr.seen = <<>>

\* A send whose native request threw is over; the handler saw 2, then 4.
C15_Witness ==
  /\ SendOver /\ xhr.handler = "records" /\ xhr.outcome = "throw"
  /\ xhr.seen = <<2, 4>> /\ xhr.statusText = "Error"

====
